---- MODULE Spec2Model ----
(***************************************************************************)
(* Job tracker (jobby): the tracked-job store handlers and the mailbox     *)
(* scan of src/app.js, the multi-user save-job handler of                  *)
(* src/unnamed/part_000, and the status reconciler described in spec.md    *)
(* section 4.3.                                                            *)
(*                                                                         *)
(* Strings that the code inspects (subjects, sender headers, company       *)
(* names, keywords) are sequences of one-character strings, so that        *)
(* toLowerCase and includes are computed as JavaScript computes them.      *)
(***************************************************************************)
EXTENDS Integers, Sequences, FiniteSets, TLC

\* ------------------------------------------------------------------ bounds
\* largest number of messages one list call returns in the model
MaxMsgs == 2
\* largest value of the clock that new Date() reads
MaxClock == 1
\* largest number of messages a list call returns while the pipeline runs
MaxPipelineMsgs == 1
\* largest number of messages a list call returns in the multi-user variant
MaxSharedMsgs == 1

VARIABLES
    jobs,           \* the Job collection of app.js: a set of documents
    now,            \* the clock that new Date() reads
    post,           \* the POST /api/jobs request in flight, if any
    rec,            \* the last reconciliation: the update record and its result
    userJobs,       \* the Job collection of the multi-user variant (part_000)
    mpost,          \* multi-user variant: each client's POST /api/jobs in flight
    oauth2Client,   \* multi-user variant: credentials of the module-level client
    mcookie,        \* multi-user variant: each browser's gmail_tokens cookie
    mscan,          \* multi-user variant: each client's check-emails in flight
    mres,           \* multi-user variant: the last mailbox response to each client
    ucookie,        \* multi-user variant: each browser's user cookie
    ures,           \* multi-user variant: the last page or redirect sent to each client
    gmail_tokens,   \* the gmail_tokens cookie of the browser (app.js:374)
    scan,           \* the GET /api/check-emails request in flight, if any
    calls,          \* history: the provider calls of the latest mailbox request
    res,            \* the last response sent (code 0: a scan's is not sent yet)
    listed          \* history: the messages fetched by the scan that res answers

storeVars == <<jobs, now, post, rec>>

multiVars == <<userJobs, mpost, oauth2Client, mcookie, mscan, mres, ucookie, ures>>

\* the login state of the multi-user variant
authVars == <<ucookie, ures>>

\* the mailbox state of the multi-user variant
sharedVars == <<oauth2Client, mcookie, mscan, mres>>

mailVars == <<gmail_tokens, scan, calls>>

vars == <<jobs, now, post, rec, userJobs, mpost, oauth2Client, mcookie, mscan, mres,
         ucookie, ures,
         gmail_tokens, scan, calls, res, listed>>

\* ------------------------------------------------------ JavaScript strings
UpperCase ==
    <<"A", "B", "C", "D", "E", "F", "G", "H", "I", "J", "K", "L", "M",
      "N", "O", "P", "Q", "R", "S", "T", "U", "V", "W", "X", "Y", "Z">>

LowerCase ==
    <<"a", "b", "c", "d", "e", "f", "g", "h", "i", "j", "k", "l", "m",
      "n", "o", "p", "q", "r", "s", "t", "u", "v", "w", "x", "y", "z">>

\* String.prototype.toLowerCase, one character
toLowerCaseChar(c) ==
    IF \E i \in 1..26 : UpperCase[i] = c
      THEN LowerCase[CHOOSE i \in 1..26 : UpperCase[i] = c]
      ELSE c

\* String.prototype.toLowerCase
toLowerCase(s) ==
    [i \in 1..Len(s) |-> toLowerCaseChar(s[i])]

\* String.prototype.includes
includes(text, k) ==
    \E i \in 0..(Len(text) - Len(k)) : \A j \in 1..Len(k) : text[i + j] = k[j]

\* ----------------------------------------------------------------- keywords
\* "interview"
KW_interview ==
    <<"i", "n", "t", "e", "r", "v", "i", "e", "w">>
\* "next step"
KW_next_step ==
    <<"n", "e", "x", "t", " ", "s", "t", "e", "p">>
\* "move forward"
KW_move_forward ==
    <<"m", "o", "v", "e", " ", "f", "o", "r", "w", "a", "r", "d">>
\* "schedule"
KW_schedule ==
    <<"s", "c", "h", "e", "d", "u", "l", "e">>
\* "congratulations"
KW_congratulations ==
    <<"c", "o", "n", "g", "r", "a", "t", "u", "l", "a", "t", "i", "o", "n", "s">>
\* "offer"
KW_offer ==
    <<"o", "f", "f", "e", "r">>
\* "phone screen"
KW_phone_screen ==
    <<"p", "h", "o", "n", "e", " ", "s", "c", "r", "e", "e", "n">>
\* "unfortunately"
KW_unfortunately ==
    <<"u", "n", "f", "o", "r", "t", "u", "n", "a", "t", "e", "l", "y">>
\* "not moving forward"
KW_not_moving_forward ==
    <<"n", "o", "t", " ", "m", "o", "v", "i", "n", "g", " ", "f", "o", "r", "w", "a", "r", "d">>
\* "not selected"
KW_not_selected ==
    <<"n", "o", "t", " ", "s", "e", "l", "e", "c", "t", "e", "d">>
\* "regret to inform"
KW_regret_to_inform ==
    <<"r", "e", "g", "r", "e", "t", " ", "t", "o", " ", "i", "n", "f", "o", "r", "m">>
\* "position has been filled"
KW_position_has_been_filled ==
    <<"p", "o", "s", "i", "t", "i", "o", "n", " ", "h", "a", "s", " ", "b", "e", "e", "n", " ",
      "f", "i", "l", "l", "e", "d">>

POSITIVE_KEYWORDS ==
    <<KW_interview, KW_next_step, KW_move_forward, KW_schedule,
      KW_congratulations, KW_offer, KW_phone_screen>>

NEGATIVE_KEYWORDS ==
    <<KW_unfortunately, KW_not_moving_forward, KW_not_selected,
      KW_regret_to_inform, KW_position_has_been_filled>>

\* ------------------------------------------------- mailbox contents (inputs)
\* "Interview invitation — Acme Corp"; "EMDASH" stands for the one character
\* U+2014, which no keyword contains and toLowerCase leaves alone
SubjectInterview ==
    <<"I", "n", "t", "e", "r", "v", "i", "e", "w", " ", "i", "n", "v", "i", "t", "a", "t", "i",
      "o", "n", " ", "EMDASH", " ", "A", "c", "m", "e", " ", "C", "o", "r", "p">>
\* "Unfortunately, we have decided to move forward with other candidates"
SubjectUnfortunately ==
    <<"U", "n", "f", "o", "r", "t", "u", "n", "a", "t", "e", "l", "y", ",", " ", "w", "e", " ",
      "h", "a", "v", "e", " ", "d", "e", "c", "i", "d", "e", "d", " ", "t", "o", " ", "m", "o",
      "v", "e", " ", "f", "o", "r", "w", "a", "r", "d", " ", "w", "i", "t", "h", " ", "o", "t",
      "h", "e", "r", " ", "c", "a", "n", "d", "i", "d", "a", "t", "e", "s">>
\* "Your application was received"
SubjectReceived ==
    <<"Y", "o", "u", "r", " ", "a", "p", "p", "l", "i", "c", "a", "t", "i", "o", "n", " ", "w",
      "a", "s", " ", "r", "e", "c", "e", "i", "v", "e", "d">>
\* "We REGRET to inform you"
SubjectRegret ==
    <<"W", "e", " ", "R", "E", "G", "R", "E", "T", " ", "t", "o", " ", "i", "n", "f", "o", "r",
      "m", " ", "y", "o", "u">>
\* "Job Offer from Globex"
SubjectOffer ==
    <<"J", "o", "b", " ", "O", "f", "f", "e", "r", " ", "f", "r", "o", "m", " ", "G", "l", "o",
      "b", "e", "x">>

\* "hr@acme.io"
FromAcme ==
    <<"h", "r", "@", "a", "c", "m", "e", ".", "i", "o">>
\* "Jobs <jobs@Globex.com>"
FromGlobex ==
    <<"J", "o", "b", "s", " ", "<", "j", "o", "b", "s", "@", "G", "l", "o", "b", "e", "x", ".",
      "c", "o", "m", ">">>
\* "Recruiting Team" (a sender header without an address)
FromNoAddress ==
    <<"R", "e", "c", "r", "u", "i", "t", "i", "n", "g", " ", "T", "e", "a", "m">>

\* "Acme"
CompanyAcme ==
    <<"A", "c", "m", "e">>
\* "Globex"
CompanyGlobex ==
    <<"G", "l", "o", "b", "e", "x">>

\* ------------------------------------------------------------ mail provider
NoCookie == "NoCookie"

\* payload.headers of a fetched message: a From and (optionally) a Subject
Headers(subject, from) ==
    <<[name |-> "From", value |-> from], [name |-> "Subject", value |-> subject]>>

\* what users.messages.get can do for one listed message: return it ("ok"),
\* be rejected with code 401, fail otherwise, or return data without payload
Messages ==
    {[get |-> "ok", headers |-> Headers(SubjectInterview, FromAcme)],
     [get |-> "ok", headers |-> Headers(SubjectUnfortunately, FromGlobex)],
     [get |-> "ok", headers |-> Headers(SubjectReceived, FromAcme)],
     [get |-> "ok", headers |-> Headers(SubjectRegret, FromNoAddress)],
     [get |-> "ok", headers |-> Headers(SubjectOffer, FromGlobex)],
     [get |-> "ok", headers |-> <<[name |-> "From", value |-> FromAcme]>>],
     [get |-> "401", headers |-> <<>>],
     [get |-> "error", headers |-> <<>>],
     [get |-> "nopayload", headers |-> <<>>]}

\* outcome of users.messages.list
ListOutcomes == {"ok", "401", "invalid_grant", "error"}

\* ------------------------------------------------------- GET /api/check-emails
\* headers.find(h => h.name === name)?.value || ''
HeaderValue(headers, name) ==
    IF \E i \in DOMAIN headers : headers[i].name = name
      THEN headers[CHOOSE i \in DOMAIN headers :
                     /\ headers[i].name = name
                     /\ \A j \in 1..(i - 1) : headers[j].name # name].value
      ELSE <<>>

\* POSITIVE_KEYWORDS.some(k => text.includes(k))
hasPositive(text) ==
    \E i \in DOMAIN POSITIVE_KEYWORDS : includes(text, POSITIVE_KEYWORDS[i])

\* NEGATIVE_KEYWORDS.some(k => text.includes(k))
hasNegative(text) ==
    \E i \in DOMAIN NEGATIVE_KEYWORDS : includes(text, NEGATIVE_KEYWORDS[i])

\* mutant: the keyword filter dropped, every fetched message is recorded
qualifies_always(pos, neg) == TRUE

\* if (hasPositive || hasNegative)
qualifies(pos, neg) == pos \/ neg

\* type: hasPositive ? 'positive' : 'negative'
updateType(pos, neg) == IF pos THEN "positive" ELSE "negative"

\* mutant: the record put in front of the array instead of pushed
pushUpdate_unshift(updates, headers) ==
    LET subject == HeaderValue(headers, "Subject")
        from    == HeaderValue(headers, "From")
        text    == toLowerCase(subject)
        pos     == hasPositive(text)
        neg     == hasNegative(text)
    IN  IF qualifies(pos, neg)
          THEN <<[company |-> from,
                  type    |-> updateType(pos, neg),
                  subject |-> subject]>> \o updates
          ELSE updates

\* the body of the for loop for one fetched message: the updates array after it
pushUpdate(updates, headers) ==
    LET subject == HeaderValue(headers, "Subject")
        from    == HeaderValue(headers, "From")
        text    == toLowerCase(subject)
        pos     == hasPositive(text)
        neg     == hasNegative(text)
    IN  IF qualifies(pos, neg)
          THEN Append(updates, [company |-> from,
                                type    |-> updateType(pos, neg),
                                subject |-> subject])
          ELSE updates

\* a field the request body or the document does not have
Absent == "undefined"

Body(jobId, title, company, link, status) ==
    [jobId |-> jobId, title |-> title, company |-> company, link |-> link,
     status |-> status]

NoBody == Body("", "", <<>>, "", Absent)

\* a response; body is history: the request body a save-job response answers
Response(route, code, error, connected, updates) ==
    [route |-> route, code |-> code, error |-> error,
     connected |-> connected, updates |-> updates, body |-> NoBody]

NoScan == [pc |-> "idle", todo |-> 0, fetched |-> <<>>, updates |-> <<>>]

\* a call to the mail provider: gmail.users.messages.list or .get, made
\* through an OAuth client that holds the credentials cred, and its outcome
Call(op, cred, out) == [op |-> op, cred |-> cred, out |-> out]

\* no request is in flight: the browser sends its next request after the response
Idle == scan.pc = "idle"

\* mutant: the catch block clears the cookie whatever the error
checkEmailsCatch_clears(err) ==
    /\ UNCHANGED <<storeVars, multiVars>>
    /\ scan' = NoScan
    /\ listed' = scan.fetched
    /\ gmail_tokens' = NoCookie
    /\ IF err \in {"401", "invalid_grant"}
         THEN res' = Response("check-emails", 200, "Token expired", "false", <<>>)
         ELSE res' = Response("check-emails", 200, "Failed to check emails", "false", <<>>)

\* the catch block: err.code === 401 || err.message?.includes('invalid_grant')
checkEmailsCatch(err) ==
    /\ UNCHANGED <<storeVars, multiVars>>
    /\ scan' = NoScan
    /\ listed' = scan.fetched
    /\ IF err \in {"401", "invalid_grant"}
         THEN /\ gmail_tokens' = NoCookie
              /\ res' = Response("check-emails", 200, "Token expired", "false", <<>>)
         ELSE /\ gmail_tokens' = gmail_tokens
              /\ res' = Response("check-emails", 200, "Failed to check emails", "false", <<>>)

\* mutant: the handler without the cookie check
CheckEmailsList_unchecked(list, n) ==
    /\ Idle
    /\ UNCHANGED <<storeVars, multiVars>>
    /\ calls' = <<Call("list", gmail_tokens, list)>>
    /\ IF list # "ok"
         THEN checkEmailsCatch(list)
       ELSE /\ scan' = [pc |-> "loop", todo |-> n, fetched |-> <<>>, updates |-> <<>>]
            /\ res' = Response("check-emails", 0, "none", "absent", <<>>)
            /\ listed' = <<>>
            /\ UNCHANGED gmail_tokens

\* the handler up to the end of its first await: the cookie check and
\* gmail.users.messages.list, which returns n message ids or throws
CheckEmailsList(list, n) ==
    /\ Idle
    /\ UNCHANGED <<storeVars, multiVars>>
    /\ calls' = IF gmail_tokens = NoCookie THEN <<>>
                ELSE <<Call("list", gmail_tokens, list)>>
    /\ IF gmail_tokens = NoCookie
         THEN /\ res' = Response("check-emails", 200, "Not connected", "false", <<>>)
              /\ listed' = <<>>
              /\ UNCHANGED <<gmail_tokens, scan>>
       ELSE IF list # "ok"
         THEN checkEmailsCatch(list)
       ELSE /\ scan' = [pc |-> "loop", todo |-> n, fetched |-> <<>>, updates |-> <<>>]
            /\ res' = Response("check-emails", 0, "none", "absent", <<>>)
            /\ listed' = <<>>
            /\ UNCHANGED gmail_tokens

\* one iteration of for (const message of messages): gmail.users.messages.get
\* answers with message m (or throws), and the loop body classifies it
CheckEmailsGet(m) ==
    /\ scan.pc = "loop"
    /\ scan.todo > 0
    /\ calls' = Append(calls, Call("get", gmail_tokens, m.get))
    /\ IF m.get = "401" THEN checkEmailsCatch("401")
       ELSE IF m.get \in {"error", "nopayload"} THEN checkEmailsCatch("error")
       ELSE /\ UNCHANGED <<storeVars, multiVars>>
            /\ scan' = [scan EXCEPT !.todo = @ - 1,
                                    !.fetched = Append(@, m),
                                    !.updates = pushUpdate(@, m.headers)]
            /\ UNCHANGED <<gmail_tokens, res, listed>>

\* mutant: the handler moves the stored jobs to interviewing before it answers
CheckEmailsRespond_writes ==
    /\ scan.pc = "loop"
    /\ scan.todo = 0
    /\ jobs' = {[d EXCEPT !.status = "interviewing", !.lastUpdated = now] : d \in jobs}
    /\ UNCHANGED <<now, post, rec, multiVars>>
    /\ res' = Response("check-emails", 200, "none", "true", scan.updates)
    /\ listed' = scan.fetched
    /\ scan' = NoScan
    /\ UNCHANGED <<gmail_tokens, calls>>

\* res.json({ updates, connected: true }) after the loop
CheckEmailsRespond ==
    /\ scan.pc = "loop"
    /\ scan.todo = 0
    /\ UNCHANGED <<storeVars, multiVars>>
    /\ res' = Response("check-emails", 200, "none", "true", scan.updates)
    /\ listed' = scan.fetched
    /\ scan' = NoScan
    /\ UNCHANGED <<gmail_tokens, calls>>

\* --------------------------------------------------- Gmail OAuth and status
\* req.query of the callback and the outcome of oauth2Client.getToken(code)
CallbackQueries == {"error", "no_code", "code_ok", "code_rejected"}

\* mutant: the cookie is set before the exchange is known to have succeeded
GetAuthGoogleCallback_early(q) ==
    /\ Idle
    /\ UNCHANGED <<storeVars, multiVars, scan>>
    /\ calls' = <<>>
    /\ listed' = <<>>
    /\ IF q = "error"
         THEN /\ res' = Response("callback", 302, "oauth_failed", "absent", <<>>)
              /\ UNCHANGED gmail_tokens
       ELSE IF q = "no_code"
         THEN /\ res' = Response("callback", 302, "no_code", "absent", <<>>)
              /\ UNCHANGED gmail_tokens
       ELSE IF q = "code_ok"
         THEN /\ gmail_tokens' = "tokens"
              /\ res' = Response("callback", 302, "none", "absent", <<>>)
       ELSE /\ res' = Response("callback", 302, "connection_failed", "absent", <<>>)
            /\ gmail_tokens' = "tokens"

\* GET /auth/google/callback; q is req.query and the outcome of getToken
GetAuthGoogleCallback(q) ==
    /\ Idle
    /\ UNCHANGED <<storeVars, multiVars, scan>>
    /\ calls' = <<>>
    /\ listed' = <<>>
    /\ IF q = "error"
         THEN /\ res' = Response("callback", 302, "oauth_failed", "absent", <<>>)
              /\ UNCHANGED gmail_tokens
       ELSE IF q = "no_code"
         THEN /\ res' = Response("callback", 302, "no_code", "absent", <<>>)
              /\ UNCHANGED gmail_tokens
       ELSE IF q = "code_ok"
         THEN /\ gmail_tokens' = "tokens"
              /\ res' = Response("callback", 302, "none", "absent", <<>>)
       ELSE /\ res' = Response("callback", 302, "connection_failed", "absent", <<>>)
            /\ UNCHANGED gmail_tokens

GetAuthGoogleDisconnect ==
    /\ Idle
    /\ UNCHANGED <<storeVars, multiVars, scan>>
    /\ calls' = <<>>
    /\ gmail_tokens' = NoCookie
    /\ res' = Response("disconnect", 302, "none", "absent", <<>>)
    /\ listed' = <<>>

GetApiGmailStatus ==
    /\ Idle
    /\ UNCHANGED <<storeVars, multiVars, scan>>
    /\ calls' = <<>>
    /\ res' = Response("gmail-status", 200, "none",
                       IF gmail_tokens # NoCookie THEN "true" ELSE "false", <<>>)
    /\ listed' = <<>>
    /\ UNCHANGED gmail_tokens

\* ------------------------------------------------------------ Job store
\* enum of jobSchema.status
StatusEnum == {"saved", "applied", "interviewing", "rejected", "offer"}

\* !x for a string field of the request body
falsy(x) == x = "" \/ x = Absent

NoPost == [pc |-> "idle", body |-> NoBody, existing |-> 0, status |-> Absent]

NoUpdate == [company |-> <<>>, type |-> "none", subject |-> <<>>]

NoRec == [update |-> NoUpdate, applied |-> FALSE, again |-> FALSE]

\* the status a document loaded by findOne shows: the schema default 'saved'
\* stands in for a status the stored document does not have
hydratedStatus(doc) == IF doc.status = Absent THEN "saved" ELSE doc.status

\* the documents that have this jobId
withJobId(jobId) == {d \in jobs : d.jobId = jobId}

\* Job.findOne({ jobId }): the _id and the loaded status, _id 0 when none
findOne(jobId) ==
    IF withJobId(jobId) = {} THEN [id |-> 0, status |-> Absent]
    ELSE LET doc == CHOOSE d \in withJobId(jobId) :
                       \A e \in withJobId(jobId) : d.id <= e.id
         IN  [id |-> doc.id, status |-> hydratedStatus(doc)]

hasId(id) == \E d \in jobs : d.id = id

\* request bodies of POST /api/jobs carry one of these jobIds
JobIds == {"j1", "j2"}

\* _id values: an ObjectId is opaque, so a new document is named by the least
\* _id that no stored document has; the unique index on jobId keeps the
\* collection at one document per jobId
Ids == 1..Cardinality(JobIds)

newId == CHOOSE id \in Ids : ~hasId(id) /\ \A other \in Ids : other < id => hasId(other)

\* validation of the status path on save and create: the enum, skipped for
\* a value that is not set
statusValid(status) == status = Absent \/ status \in StatusEnum

\* status: req.body.status || 'saved'
statusOrSaved(status) == IF falsy(status) THEN "saved" ELSE status

\* the collection after the document _id gets status and lastUpdated
withStatus(id, status, at) ==
    {IF d.id = id THEN [d EXCEPT !.status = status, !.lastUpdated = at] ELSE d : d \in jobs}

\* outcomes of connectDB
DbOutcomes == {"ok", "no_uri", "connect_fails"}

\* POST /api/jobs up to the end of Job.findOne
PostJobsFind(body, db) ==
    /\ post.pc = "idle"
    /\ UNCHANGED <<jobs, now, rec, multiVars, mailVars>>
    /\ IF falsy(body.jobId) \/ falsy(body.title) \/ body.company = <<>> \/ falsy(body.link)
         THEN /\ res' = Response("post-jobs", 400, "Missing required fields", "absent", <<>>)
              /\ listed' = <<>>
              /\ UNCHANGED post
       ELSE IF db = "no_uri"
         THEN /\ res' = Response("post-jobs", 500, "Database not configured", "absent", <<>>)
              /\ listed' = <<>>
              /\ UNCHANGED post
       ELSE IF db = "connect_fails"
         THEN /\ res' = Response("post-jobs", 500, "Failed to save job", "absent", <<>>)
              /\ listed' = <<>>
              /\ UNCHANGED post
       ELSE LET existingJob == findOne(body.jobId)
            IN  /\ post' = [pc |-> "write", body |-> body,
                            existing |-> existingJob.id, status |-> existingJob.status]
                /\ UNCHANGED <<res, listed>>

\* mutant: the failed save leaves the new status behind, without lastUpdated
postJobsCatch_partial ==
    /\ res' = Response("post-jobs", 500, "Failed to save job", "absent", <<>>)
    /\ jobs' = {IF d.id = post.existing THEN [d EXCEPT !.status = post.body.status] ELSE d :
                  d \in jobs}

\* the catch block of POST /api/jobs
postJobsCatch ==
    /\ res' = Response("post-jobs", 500, "Failed to save job", "absent", <<>>)
    /\ UNCHANGED jobs

\* res.json({ success: true, message, job }) to the request with this body
postJobsOk(message, body) ==
    res' = [Response("post-jobs", 200, message, "absent", <<>>) EXCEPT !.body = body]

\* POST /api/jobs after Job.findOne: existingJob.save() or Job.create(),
\* where the write itself can fail (writeOk = FALSE)
PostJobsWrite(writeOk) ==
    /\ post.pc = "write"
    /\ post' = NoPost
    /\ rec' = NoRec
    /\ listed' = <<>>
    /\ UNCHANGED <<now, multiVars, mailVars>>
    /\ IF post.existing # 0
         THEN IF post.status # post.body.status
                THEN IF ~statusValid(post.body.status) \/ ~writeOk \/ ~hasId(post.existing)
                       THEN postJobsCatch
                       ELSE /\ jobs' = withStatus(post.existing, post.body.status, now)
                            /\ postJobsOk("Job updated", post.body)
                ELSE /\ postJobsOk("Job updated", post.body)
                     /\ UNCHANGED jobs
         ELSE LET status == statusOrSaved(post.body.status)
              IN  IF ~statusValid(status) \/ ~writeOk \/ withJobId(post.body.jobId) # {}
                    THEN postJobsCatch
                    ELSE /\ jobs' = jobs \cup {[id          |-> newId,
                                                jobId       |-> post.body.jobId,
                                                title       |-> post.body.title,
                                                company     |-> post.body.company,
                                                link        |-> post.body.link,
                                                status      |-> status,
                                                lastUpdated |-> now]}
                         /\ postJobsOk("Job saved", post.body)

\* the status findByIdAndUpdate stores for { status: req.body.status }: the
\* value as given, no validator run; with no status in the body the path is
\* left alone or set to null, depending on the mongoose version
patchedStatuses(old, status) ==
    IF status = Absent THEN {old, "null"} ELSE {status}

\* PATCH /api/jobs/:id
PatchJobsId(id, status, dbOk) ==
    /\ UNCHANGED <<now, post, multiVars, mailVars>>
    /\ rec' = NoRec
    /\ listed' = <<>>
    /\ IF ~dbOk
         THEN /\ res' = Response("patch-jobs", 500, "Failed to update job", "absent", <<>>)
              /\ UNCHANGED jobs
       ELSE IF ~hasId(id)
         THEN /\ res' = Response("patch-jobs", 404, "Job not found", "absent", <<>>)
              /\ UNCHANGED jobs
       ELSE /\ \E d \in jobs :
                 /\ d.id = id
                 /\ \E s \in patchedStatuses(d.status, status) :
                      jobs' = withStatus(id, s, now)
            /\ res' = Response("patch-jobs", 200, "none", "absent", <<>>)

\* DELETE /api/jobs/:id
DeleteJobsId(id, dbOk) ==
    /\ UNCHANGED <<now, post, multiVars, mailVars>>
    /\ rec' = NoRec
    /\ listed' = <<>>
    /\ IF ~dbOk
         THEN /\ res' = Response("delete-jobs", 500, "Failed to delete job", "absent", <<>>)
              /\ UNCHANGED jobs
       ELSE IF ~hasId(id)
         THEN /\ res' = Response("delete-jobs", 404, "Job not found", "absent", <<>>)
              /\ UNCHANGED jobs
       ELSE /\ jobs' = {d \in jobs : d.id # id}
            /\ res' = Response("delete-jobs", 200, "none", "absent", <<>>)

\* time passes: a later new Date() reads a later instant
Tick ==
    /\ now < MaxClock
    /\ now' = now + 1
    /\ UNCHANGED <<jobs, post, rec, multiVars, mailVars, res, listed>>

\* request bodies of POST /api/jobs
StatusInputs == {Absent, "saved", "offer", "bogus"}

ValidBodies ==
    {Body(j, "title", CompanyAcme, "link", s) : j \in JobIds, s \in StatusInputs}

InvalidBodies ==
    {Body("", "title", CompanyAcme, "link", "saved"),
     Body("j1", Absent, CompanyAcme, "link", "saved"),
     Body("j1", "title", <<>>, "link", "saved"),
     Body("j1", "title", CompanyAcme, "", "saved")}

\* ------------------------------------ multi-user variant: POST /api/jobs
\* the users a user cookie can name
Users == {"u1", "u2"}

\* the browsers that send requests, each with at most one request in flight
Clients == {"c1", "c2"}

NoMultiPost == [pc |-> "idle", user |-> NoCookie, body |-> NoBody]

\* Job.findOne({ userId, jobId }) found a document
existsFor(user, jobId) ==
    \E i \in DOMAIN userJobs : userJobs[i].userId = user /\ userJobs[i].jobId = jobId

\* requireAuth and the handler up to the end of Job.findOne; cookie is the
\* user cookie of the request: a user, or NoCookie
MultiPostFind(c, cookie, body, dbOk) ==
    /\ mpost[c].pc = "idle"
    /\ UNCHANGED <<storeVars, mailVars, userJobs, sharedVars, authVars>>
    /\ listed' = <<>>
    /\ IF cookie = NoCookie
         THEN /\ res' = Response("multi-post-jobs", 302, "login", "absent", <<>>)
              /\ UNCHANGED mpost
       ELSE IF ~dbOk
         THEN /\ res' = Response("multi-post-jobs", 500, "Failed to save job", "absent", <<>>)
              /\ UNCHANGED mpost
       ELSE IF existsFor(cookie, body.jobId)
         THEN /\ res' = Response("multi-post-jobs", 200, "Job already saved", "absent", <<>>)
              /\ UNCHANGED mpost
       ELSE /\ mpost' = [mpost EXCEPT ![c] = [pc |-> "create", user |-> cookie, body |-> body]]
            /\ UNCHANGED res

\* the handler after Job.findOne found nothing: Job.create, which can fail
MultiPostCreate(c, writeOk) ==
    /\ mpost[c].pc = "create"
    /\ mpost' = [mpost EXCEPT ![c] = NoMultiPost]
    /\ UNCHANGED <<storeVars, mailVars, sharedVars, authVars>>
    /\ listed' = <<>>
    /\ IF ~writeOk
         THEN /\ res' = Response("multi-post-jobs", 500, "Failed to save job", "absent", <<>>)
              /\ UNCHANGED userJobs
         ELSE /\ userJobs' = Append(userJobs, [id      |-> Len(userJobs) + 1,
                                               userId  |-> mpost[c].user,
                                               jobId   |-> mpost[c].body.jobId,
                                               title   |-> mpost[c].body.title,
                                               company |-> mpost[c].body.company,
                                               link    |-> mpost[c].body.link,
                                               status  |-> statusOrSaved(mpost[c].body.status)])
              /\ res' = Response("multi-post-jobs", 200, "Job saved!", "absent", <<>>)

MultiBodies ==
    {Body(j, "title", CompanyAcme, "link", Absent) : j \in JobIds}

\* ------------------------------------------- status reconciler (spec.md 4.3)
\* ------------------------------ multi-user variant: GET /api/check-emails
\* the credentials a gmail_tokens cookie can hold
Tokens == {"t1", "t2"}

\* the gmail_tokens cookies a browser can hold: its own tokens or none
CookiesOf(c) == {NoCookie, IF c = "c1" THEN "t1" ELSE "t2"}

\* a response to a mailbox request; err (history) is the error the handler
\* caught and calls (history) the provider calls the handler made
MultiResponse(route, error, connected, updates, err, callsMade) ==
    [route |-> route, error |-> error, connected |-> connected,
     updates |-> updates, err |-> err, calls |-> callsMade]

NoMultiResponse == MultiResponse("none", "none", "absent", <<>>, "none", <<>>)

NoMultiScan == [pc |-> "idle", todo |-> 0, updates |-> <<>>, calls |-> <<>>]

\* the catch block: res.json({ error: 'Failed to check emails' })
sharedCatch(c, err, callsMade) ==
    /\ mscan' = [mscan EXCEPT ![c] = NoMultiScan]
    /\ mres' = [mres EXCEPT ![c] =
                  MultiResponse("check-emails", "Failed to check emails", "absent",
                                <<>>, err, callsMade)]
    /\ UNCHANGED mcookie

\* requireAuth and the handler up to the end of its first await:
\* oauth2Client.setCredentials(tokens) and gmail.users.messages.list
SharedCheckEmailsList(c, user, list, n) ==
    /\ mscan[c].pc = "idle"
    /\ UNCHANGED <<storeVars, mailVars, userJobs, mpost, authVars, res, listed>>
    /\ IF user = NoCookie
         THEN /\ mres' = [mres EXCEPT ![c] =
                            MultiResponse("check-emails", "login", "absent", <<>>, "none", <<>>)]
              /\ UNCHANGED <<oauth2Client, mcookie, mscan>>
       ELSE IF mcookie[c] = NoCookie
         THEN /\ mres' = [mres EXCEPT ![c] =
                            MultiResponse("check-emails", "Not connected", "absent",
                                          <<>>, "none", <<>>)]
              /\ UNCHANGED <<oauth2Client, mcookie, mscan>>
       ELSE /\ oauth2Client' = mcookie[c]
            /\ IF list # "ok"
                 THEN sharedCatch(c, list, <<Call("list", mcookie[c], list)>>)
               ELSE /\ mscan' = [mscan EXCEPT ![c] =
                                   [pc |-> "loop", todo |-> n, updates |-> <<>>,
                                    calls |-> <<Call("list", mcookie[c], list)>>]]
                    /\ mres' = [mres EXCEPT ![c] = NoMultiResponse]
                    /\ UNCHANGED mcookie

\* one iteration of the loop: gmail.users.messages.get goes through the
\* module-level client with the credentials it holds at that moment
SharedCheckEmailsGet(c, m) ==
    /\ mscan[c].pc = "loop"
    /\ mscan[c].todo > 0
    /\ UNCHANGED <<storeVars, mailVars, userJobs, mpost, authVars, res, listed, oauth2Client>>
    /\ LET callsMade == Append(mscan[c].calls, Call("get", oauth2Client, m.get))
       IN  IF m.get = "401" THEN sharedCatch(c, "401", callsMade)
           ELSE IF m.get \in {"error", "nopayload"} THEN sharedCatch(c, "error", callsMade)
           ELSE /\ mscan' = [mscan EXCEPT ![c].todo = @ - 1,
                                          ![c].calls = callsMade,
                                          ![c].updates = pushUpdate(@, m.headers)]
                /\ UNCHANGED <<mcookie, mres>>

\* res.json({ updates }) after the loop
SharedCheckEmailsRespond(c) ==
    /\ mscan[c].pc = "loop"
    /\ mscan[c].todo = 0
    /\ UNCHANGED <<storeVars, mailVars, userJobs, mpost, authVars, res, listed, oauth2Client, mcookie>>
    /\ mres' = [mres EXCEPT ![c] =
                  MultiResponse("check-emails", "none", "absent", mscan[c].updates,
                                "none", mscan[c].calls)]
    /\ mscan' = [mscan EXCEPT ![c] = NoMultiScan]

\* GET /api/gmail-status: res.json({ connected: !!tokens })
SharedGmailStatus(c) ==
    /\ mscan[c].pc = "idle"
    /\ UNCHANGED <<storeVars, mailVars, userJobs, mpost, authVars, res, listed,
                   oauth2Client, mcookie, mscan>>
    /\ mres' = [mres EXCEPT ![c] =
                  MultiResponse("gmail-status", "none",
                                IF mcookie[c] # NoCookie THEN "true" ELSE "false",
                                <<>>, mres[c].err, <<>>)]

\* messages of the mailboxes the two sessions scan
SharedMessages ==
    {[get |-> "ok", headers |-> Headers(SubjectInterview, FromAcme)],
     [get |-> "401", headers |-> <<>>],
     [get |-> "error", headers |-> <<>>]}

\* outcomes of gmail.users.messages.list
SharedListOutcomes == {"ok", "401", "error"}

\* ------------------------- multi-user variant: login and protected routes
\* a user cookie whose value JSON.parse rejects
Malformed == "malformed"

\* a page, redirect or error sent to a client; jobs is the list the tracker
\* page renders
Page(route, code, location, jobsShown) ==
    [route |-> route, code |-> code, location |-> location, jobs |-> jobsShown]

NoPage == Page("none", 0, "none", <<>>)

\* the routes behind requireAuth
ProtectedRoutes == {"tracker", "post-jobs", "check-emails"}

\* addUserToViews, mounted with app.use before every route:
\* userCookie ? JSON.parse(userCookie) : null does not throw
addUserToViewsPasses(userCookie) == userCookie # Malformed

\* the answer of Express to the SyntaxError thrown in addUserToViews: 500,
\* no cookie cleared, the route's own middleware never runs
UnparsedCookie(c, route) ==
    /\ ~addUserToViewsPasses(ucookie[c])
    /\ ures' = [ures EXCEPT ![c] = Page(route, 500, "none", <<>>)]
    /\ UNCHANGED ucookie

\* requireAuth turning a request away: no cookie redirects to /login, a
\* cookie that does not parse is cleared first (a branch no request
\* reaches, since addUserToViews has thrown on that cookie before)
requireAuthRejects(c, route) ==
    /\ addUserToViewsPasses(ucookie[c])
    /\ ucookie[c] \notin Users
    /\ ures' = [ures EXCEPT ![c] = Page(route, 302, "/login", <<>>)]
    /\ ucookie' = [ucookie EXCEPT ![c] = NoCookie]

\* a request to a protected route that does not reach its handler
ProtectedRequestRejected(c, route) ==
    /\ mpost[c].pc = "idle"
    /\ mscan[c].pc = "idle"
    /\ UNCHANGED <<storeVars, mailVars, userJobs, mpost, sharedVars, res, listed>>
    /\ UnparsedCookie(c, route) \/ requireAuthRejects(c, route)

\* mutant: the query without the userId filter, every user's documents
findByUser_all(docs, user) ==
    [i \in 1..Len(docs) |-> docs[Len(docs) + 1 - i]]

\* Job.find({ userId }).sort({ dateAdded: -1 }): the user's documents, the
\* latest first
RECURSIVE findByUser(_, _)
findByUser(docs, user) ==
    IF docs = <<>> THEN <<>>
    ELSE findByUser(Tail(docs), user)
           \o (IF Head(docs).userId = user THEN <<Head(docs)>> ELSE <<>>)

\* GET /tracker for a client whose user cookie names a user
GetTracker(c, dbOk) ==
    /\ mpost[c].pc = "idle"
    /\ mscan[c].pc = "idle"
    /\ ucookie[c] \in Users
    /\ UNCHANGED <<storeVars, mailVars, userJobs, mpost, sharedVars, res, listed, ucookie>>
    /\ ures' = [ures EXCEPT ![c] =
                  IF dbOk THEN Page("tracker", 200, "none", findByUser(userJobs, ucookie[c]))
                  ELSE Page("tracker", 500, "none", <<>>)]

\* GET /auth/google/callback: the login of user u, or a failed exchange
GetLoginCallback(c, u, ok) ==
    /\ mpost[c].pc = "idle"
    /\ mscan[c].pc = "idle"
    /\ UNCHANGED <<storeVars, mailVars, userJobs, mpost, mcookie, mscan, mres, res, listed>>
    /\ IF ~addUserToViewsPasses(ucookie[c])
         THEN /\ ures' = [ures EXCEPT ![c] = Page("callback", 500, "none", <<>>)]
              /\ UNCHANGED <<ucookie, oauth2Client>>
       ELSE IF ~ok
         THEN /\ ures' = [ures EXCEPT ![c] = Page("callback", 302, "/login?error=auth_failed", <<>>)]
              /\ UNCHANGED <<ucookie, oauth2Client>>
       ELSE /\ oauth2Client' = "login"
            /\ ucookie' = [ucookie EXCEPT ![c] = u]
            /\ ures' = [ures EXCEPT ![c] = Page("callback", 302, "/tracker", <<>>)]

\* GET /logout
GetLogout(c) ==
    /\ mpost[c].pc = "idle"
    /\ mscan[c].pc = "idle"
    /\ UNCHANGED <<storeVars, mailVars, userJobs, mpost, sharedVars, res, listed>>
    /\ IF ~addUserToViewsPasses(ucookie[c])
         THEN /\ ures' = [ures EXCEPT ![c] = Page("logout", 500, "none", <<>>)]
              /\ UNCHANGED ucookie
         ELSE /\ ucookie' = [ucookie EXCEPT ![c] = NoCookie]
              /\ ures' = [ures EXCEPT ![c] = Page("logout", 302, "/", <<>>)]

\* the save-job requests of the logged-in users: one job, saved by both
AuthBodies == {Body("j1", "title", CompanyAcme, "link", Absent)}

\* the company key of scenario A: "acme"
KeyAcme ==
    <<"a", "c", "m", "e">>

\* rejected and offered are terminal
Terminal == {"rejected", "offered"}

\* spec.md 4.1: rejected for a negative verdict; for a positive one interviewing
\* if the text contains "interview" or "schedule", offered if it contains
\* "offer", else no status change suggested
suggestedStatus(u) ==
    LET haystack == toLowerCase(u.subject)
    IN  IF u.type = "negative" THEN "rejected"
        ELSE IF includes(haystack, KW_interview) \/ includes(haystack, KW_schedule)
          THEN "interviewing"
        ELSE IF includes(haystack, KW_offer) THEN "offered"
        ELSE "none"

\* the lowercased company name and the company key, substring-compared in
\* both directions
matches(d, u) ==
    LET name == toLowerCase(d.company)
    IN  includes(u.company, name) \/ includes(name, u.company)

\* mutant: the transition applied also when the job already has the status
shouldApply_again(status, suggested) ==
    suggested # "none" /\ status \notin Terminal

\* mutant: the transition applied also to a job in a terminal status
shouldApply_terminal(status, suggested) ==
    suggested # "none" /\ suggested # status

\* the transition rule: a suggested status that differs from the current
\* one, and the job not in a terminal status
shouldApply(status, suggested) ==
    suggested # "none" /\ suggested # status /\ status \notin Terminal

\* the matching jobs the update record transitions
touched(u) ==
    {d \in jobs : matches(d, u) /\ shouldApply(d.status, suggestedStatus(u))}

\* reconcile(update, jobs) for the j-th update record the last scan returned:
\* every touched job gets status = suggestedStatus and lastUpdated = now
Reconcile(j) ==
    /\ Idle
    /\ res.route = "check-emails" /\ res.code = 200 /\ res.error = "none"
    /\ j \in DOMAIN res.updates
    /\ LET u == res.updates[j]
       IN  /\ jobs' = {IF d \in touched(u)
                         THEN [d EXCEPT !.status = suggestedStatus(u), !.lastUpdated = now]
                         ELSE d : d \in jobs}
           /\ rec' = [update |-> u, applied |-> touched(u) # {}, again |-> rec.update = u]
    /\ UNCHANGED <<now, post, multiVars, mailVars, res, listed>>

\* messages of the mailbox the pipeline scans
PipelineMessages ==
    {[get |-> "ok", headers |-> Headers(SubjectInterview, FromAcme)],
     [get |-> "ok", headers |-> Headers(SubjectRegret, FromAcme)],
     [get |-> "ok", headers |-> Headers(SubjectOffer, FromAcme)],
     [get |-> "ok", headers |-> Headers(SubjectUnfortunately, FromGlobex)]}

\* statuses of the manual edits made while the pipeline runs
PipelineStatuses == {"applied", "offered", "rejected"}

\* ------------------------------------------------------------ specification
Init ==
    /\ gmail_tokens = NoCookie
    /\ res = Response("none", 0, "none", "absent", <<>>)
    /\ listed = <<>>
    /\ scan = NoScan
    /\ calls = <<>>
    /\ jobs = {}
    /\ now = 0
    /\ post = NoPost
    /\ rec = NoRec
    /\ userJobs = <<>>
    /\ mpost = [c \in Clients |-> NoMultiPost]
    /\ oauth2Client = NoCookie
    /\ mcookie = [c \in Clients |-> NoCookie]
    /\ mscan = [c \in Clients |-> NoMultiScan]
    /\ mres = [c \in Clients |-> NoMultiResponse]
    /\ ucookie = [c \in Clients |-> NoCookie]
    /\ ures = [c \in Clients |-> NoPage]

NextScan ==
    \/ \E q \in CallbackQueries : GetAuthGoogleCallback(q)
    \/ GetAuthGoogleDisconnect
    \/ GetApiGmailStatus
    \/ \E list \in ListOutcomes, n \in 0..MaxMsgs : CheckEmailsList(list, n)
    \/ \E m \in Messages : CheckEmailsGet(m)
    \/ CheckEmailsRespond

SpecScan == Init /\ [][NextScan]_vars

\* the tracked-job store of app.js under save, update-status and delete requests
Next ==
    \/ \E body \in ValidBodies \cup InvalidBodies, db \in DbOutcomes : PostJobsFind(body, db)
    \/ \E writeOk \in BOOLEAN : PostJobsWrite(writeOk)
    \/ \E id \in Ids \cup {0}, status \in StatusInputs, dbOk \in BOOLEAN :
          PatchJobsId(id, status, dbOk)
    \/ \E id \in Ids \cup {0}, dbOk \in BOOLEAN : DeleteJobsId(id, dbOk)
    \/ Tick

Spec == Init /\ [][Next]_vars

\* the multi-user variant's store under save requests of two browsers
NextMulti ==
    \/ \E c \in Clients, cookie \in Users \cup {NoCookie}, body \in MultiBodies,
          dbOk \in BOOLEAN : MultiPostFind(c, cookie, body, dbOk)
    \/ \E c \in Clients, writeOk \in BOOLEAN : MultiPostCreate(c, writeOk)

SpecMulti == Init /\ [][NextMulti]_vars

\* the multi-user variant's mailbox routes: each browser holds a user cookie
\* and possibly a gmail_tokens cookie of its own
InitShared ==
    /\ gmail_tokens = NoCookie
    /\ res = Response("none", 0, "none", "absent", <<>>)
    /\ listed = <<>>
    /\ scan = NoScan
    /\ calls = <<>>
    /\ jobs = {}
    /\ now = 0
    /\ post = NoPost
    /\ rec = NoRec
    /\ userJobs = <<>>
    /\ mpost = [c \in Clients |-> NoMultiPost]
    /\ oauth2Client = NoCookie
    /\ mcookie \in {f \in [Clients -> Tokens \cup {NoCookie}] : \A c \in Clients : f[c] \in CookiesOf(c)}
    /\ mscan = [c \in Clients |-> NoMultiScan]
    /\ mres = [c \in Clients |-> NoMultiResponse]
    /\ ucookie = [c \in Clients |-> NoCookie]
    /\ ures = [c \in Clients |-> NoPage]

NextShared ==
    \/ \E c \in Clients, user \in Users \cup {NoCookie}, list \in SharedListOutcomes,
          n \in 0..MaxSharedMsgs : SharedCheckEmailsList(c, user, list, n)
    \/ \E c \in Clients, m \in SharedMessages : SharedCheckEmailsGet(c, m)
    \/ \E c \in Clients : SharedCheckEmailsRespond(c)
    \/ \E c \in Clients : SharedGmailStatus(c)

SpecShared == InitShared /\ [][NextShared]_vars

\* the multi-user variant's login and protected routes: each browser starts
\* with no user cookie, a user's cookie, or a cookie that does not parse
InitAuth ==
    /\ gmail_tokens = NoCookie
    /\ res = Response("none", 0, "none", "absent", <<>>)
    /\ listed = <<>>
    /\ scan = NoScan
    /\ calls = <<>>
    /\ jobs = {}
    /\ now = 0
    /\ post = NoPost
    /\ rec = NoRec
    /\ userJobs = <<>>
    /\ mpost = [c \in Clients |-> NoMultiPost]
    /\ oauth2Client = NoCookie
    /\ mcookie = [c \in Clients |-> NoCookie]
    /\ mscan = [c \in Clients |-> NoMultiScan]
    /\ mres = [c \in Clients |-> NoMultiResponse]
    /\ ucookie \in [Clients -> Users \cup {NoCookie, Malformed}]
    /\ ures = [c \in Clients |-> NoPage]

NextAuth ==
    \/ \E c \in Clients, route \in ProtectedRoutes : ProtectedRequestRejected(c, route)
    \/ \E c \in Clients, u \in Users, ok \in BOOLEAN : GetLoginCallback(c, u, ok)
    \/ \E c \in Clients : GetLogout(c)
    \/ \E c \in Clients, dbOk \in BOOLEAN : GetTracker(c, dbOk)
    \/ \E c \in Clients, body \in AuthBodies, dbOk \in BOOLEAN :
          ucookie[c] \in Users /\ MultiPostFind(c, ucookie[c], body, dbOk)
    \/ \E c \in Clients, writeOk \in BOOLEAN : MultiPostCreate(c, writeOk)

SpecAuth == InitAuth /\ [][NextAuth]_vars

\* the email pipeline: a connected mailbox and two saved jobs at Acme
InitPipeline ==
    /\ gmail_tokens = "tokens"
    /\ res = Response("none", 0, "none", "absent", <<>>)
    /\ listed = <<>>
    /\ scan = NoScan
    /\ calls = <<>>
    /\ jobs = {[id |-> i, jobId |-> IF i = 1 THEN "j1" ELSE "j2", title |-> "title",
                company |-> CompanyAcme, link |-> "link", status |-> "saved",
                lastUpdated |-> 0] : i \in Ids}
    /\ now = 0
    /\ post = NoPost
    /\ rec = NoRec
    /\ userJobs = <<>>
    /\ mpost = [c \in Clients |-> NoMultiPost]
    /\ oauth2Client = NoCookie
    /\ mcookie = [c \in Clients |-> NoCookie]
    /\ mscan = [c \in Clients |-> NoMultiScan]
    /\ mres = [c \in Clients |-> NoMultiResponse]
    /\ ucookie = [c \in Clients |-> NoCookie]
    /\ ures = [c \in Clients |-> NoPage]

\* scans, reconciliation of the returned records, and manual status edits
NextPipeline ==
    \/ \E n \in 0..MaxPipelineMsgs : CheckEmailsList("ok", n)
    \/ \E m \in PipelineMessages : CheckEmailsGet(m)
    \/ CheckEmailsRespond
    \/ \E j \in 1..MaxPipelineMsgs : Reconcile(j)
    \/ \E id \in Ids, status \in PipelineStatuses : Idle /\ PatchJobsId(id, status, TRUE)
    \/ Tick

SpecPipeline == InitPipeline /\ [][NextPipeline]_vars

\* the Gmail routes used while jobs are stored and edited by hand
NextMailbox ==
    \/ NextScan
    \/ \E id \in Ids, status \in PipelineStatuses : Idle /\ PatchJobsId(id, status, TRUE)

SpecMailbox == InitPipeline /\ [][NextMailbox]_vars

\* ====================================================================
\* Properties
\* ====================================================================
\* the scan that res answers succeeded: res.json({ updates, connected: true })
ScanSucceeded ==
    res.route = "check-emails" /\ res.code = 200 /\ res.error = "none"

SubjectOf(m) == HeaderValue(m.headers, "Subject")

FromOf(m) == HeaderValue(m.headers, "From")

\* the lowercased text contains at least one keyword of the list
ContainsAny(str, keywords) ==
    \E k \in DOMAIN keywords : includes(toLowerCase(str), keywords[k])

HasKeyword(str) ==
    ContainsAny(str, POSITIVE_KEYWORDS) \/ ContainsAny(str, NEGATIVE_KEYWORDS)

\* C1: every update record whose subject contains both a positive and a
\* negative keyword has the negative verdict; in particular the subject
\* "Unfortunately, we have decided to move forward with other candidates".
C1_NegativePrecedence ==
    \A j \in DOMAIN res.updates :
        LET u == res.updates[j]
        IN  /\ (ContainsAny(u.subject, POSITIVE_KEYWORDS)
                  /\ ContainsAny(u.subject, NEGATIVE_KEYWORDS))
                 => u.type = "negative"
            /\ u.subject = SubjectUnfortunately => u.type = "negative"

\* C2: a scanned message without any keyword has no record in the returned
\* update list, and every returned record comes from a scanned message that
\* has at least one keyword.
C2_NoKeywordNoRecord ==
    ScanSucceeded =>
        /\ \A i \in DOMAIN listed :
             ~HasKeyword(SubjectOf(listed[i]))
               => \A j \in DOMAIN res.updates :
                    res.updates[j].subject # SubjectOf(listed[i])
        /\ \A j \in DOMAIN res.updates :
             \E i \in DOMAIN listed :
               /\ HasKeyword(SubjectOf(listed[i]))
               /\ res.updates[j].subject = SubjectOf(listed[i])
               /\ res.updates[j].company = FromOf(listed[i])

\* C2 witness: a successful scan that fetched a message without keywords
\* (dropped) and a message with one (recorded).
C2_Witness ==
    /\ ScanSucceeded
    /\ \E i \in DOMAIN listed : ~HasKeyword(SubjectOf(listed[i]))
    /\ Len(res.updates) >= 1
    /\ Len(res.updates) < Len(listed)

\* first position of character c in s, 0 when it does not occur
IndexOfChar(s, c) ==
    IF \E i \in DOMAIN s : s[i] = c
      THEN CHOOSE i \in DOMAIN s : s[i] = c /\ \A j \in 1..(i - 1) : s[j] # c
      ELSE 0

\* the company key spec.md section 4.1 describes: the segment of the sender's
\* domain before the first '.', lowercased; the lowercased header when the
\* header holds no '@'
DomainSegmentKey(from) ==
    LET at == IndexOfChar(from, "@")
    IN  IF at = 0 THEN toLowerCase(from)
        ELSE LET domain == SubSeq(from, at + 1, Len(from))
                 dot    == IndexOfChar(domain, ".")
             IN  toLowerCase(IF dot = 0 THEN domain ELSE SubSeq(domain, 1, dot - 1))

\* C3: the company key of every returned update record is the lowercased
\* pre-first-dot segment of the sender's domain (the lowercased sender header
\* when there is no domain to extract).
C3_CompanyKeyFromDomain ==
    ScanSucceeded =>
        \A j \in DOMAIN res.updates :
            \E i \in DOMAIN listed :
               /\ res.updates[j].subject = SubjectOf(listed[i])
               /\ res.updates[j].company = DomainSegmentKey(FromOf(listed[i]))

\* the request in flight is answered in this step
SaveAnswered == post.pc = "write" /\ post'.pc = "idle"

\* the save answered in this step repeats the save answered just before it
SaveRepeated ==
    /\ SaveAnswered
    /\ res.route = "post-jobs" /\ res.code = 200 /\ res.body = post.body

\* C4: a save-job request whose jobId is already stored adds no record and
\* changes the stored status only if the requested status differs from it;
\* a save that repeats the previous save leaves the store as it was.
C4_SaveExistingIdempotent ==
    [][/\ (SaveAnswered /\ withJobId(post.body.jobId) # {})
            => /\ {d.id : d \in jobs'} = {d.id : d \in jobs}
               /\ \A d \in jobs, e \in jobs' :
                    (d.id = e.id /\ e.status # d.status)
                      => (post.body.status # d.status /\ e.status = post.body.status)
       /\ SaveRepeated => jobs' = jobs]_vars

\* C5: at most one tracked job per (owner, jobId) pair in the multi-user store.
C5_OneJobPerOwnerAndJobId ==
    \A i, j \in DOMAIN userJobs :
        (userJobs[i].userId = userJobs[j].userId /\ userJobs[i].jobId = userJobs[j].jobId)
          => i = j

\* the document _id keeps its lastUpdated in this step
KeepsLastUpdated(id) ==
    \A d \in jobs, e \in jobs' : (d.id = id /\ e.id = id) => e.lastUpdated = d.lastUpdated

\* C6: a write whose requested status equals the job's current status (an
\* update-status request, or a save of a stored job) leaves lastUpdated unchanged.
C6_LastUpdatedOnlyOnChange ==
    [][/\ \A id \in Ids, status \in StatusInputs :
            (PatchJobsId(id, status, TRUE) /\ \E d \in jobs : d.id = id /\ d.status = status)
              => KeepsLastUpdated(id)
       /\ \A d \in jobs :
            (SaveAnswered /\ d.jobId = post.body.jobId /\ d.status = post.body.status)
              => KeepsLastUpdated(d.id)]_vars

\* the status values of spec.md section 3
SpecStatuses == {"saved", "applied", "interviewing", "offered", "rejected"}

\* C7: the status of every stored job is one of saved, applied, interviewing,
\* offered, rejected.
C7_StatusInEnum ==
    \A d \in jobs : d.status \in SpecStatuses

\* the step is the response of a successful scan that fetched the message
\* "Interview invitation — Acme Corp" from hr@acme.io
ScanSawInterviewAcme ==
    /\ scan.pc = "loop"
    /\ scan'.pc = "idle"
    /\ res'.code = 200 /\ res'.error = "none"
    /\ \E i \in DOMAIN listed' :
         /\ SubjectOf(listed'[i]) = SubjectInterview
         /\ FromOf(listed'[i]) = FromAcme

\* C8: when a successful scan saw "Interview invitation — Acme Corp" from
\* hr@acme.io while a job with company "Acme" and status applied is stored,
\* the returned record is positive with company key "acme" and suggested
\* status interviewing, and after the scan the job's status is interviewing.
C8_ScenarioA ==
    [][(ScanSawInterviewAcme
          /\ \E d \in jobs : d.company = CompanyAcme /\ d.status = "applied")
         => /\ \E j \in DOMAIN res'.updates :
                 LET u == res'.updates[j]
                 IN  /\ u.subject = SubjectInterview
                     /\ u.type = "positive"
                     /\ u.company = KeyAcme
                     /\ suggestedStatus(u) = "interviewing"
            /\ \A d \in jobs :
                 (d.company = CompanyAcme /\ d.status = "applied")
                   => \E e \in jobs' : e.id = d.id /\ e.status = "interviewing"]_vars

\* the state after the step is the answer to a manual edit of the store
ManualEdit ==
    res'.route \in {"post-jobs", "patch-jobs", "delete-jobs"}

\* C9: in every step, a job whose status is rejected or offered keeps its
\* status unless the step is a manual edit; no scan and no reconciliation
\* changes it, whatever the verdict of the record.
C9_TerminalNeverTransitions ==
    [][\A d \in jobs :
         d.status \in Terminal
           => \/ \E e \in jobs' : e.id = d.id /\ e.status = d.status
              \/ ManualEdit]_vars

\* C9 witness: a negative record was reconciled against a matching job
\* whose status is offered, and the job is still offered
C9_Witness ==
    /\ rec # NoRec
    /\ suggestedStatus(rec.update) = "rejected"
    /\ \E d \in jobs : d.status = "offered" /\ matches(d, rec.update)

\* C10: when a step reconciles the update record that the previous
\* reconciliation already applied, with no manual edit in between, the
\* result is applied = false and no job's status or lastUpdated changes.
C10_ReconcileIdempotent ==
    [][rec'.again => (rec'.applied = FALSE /\ jobs' = jobs)]_vars

\* C10 witness: the positive interview record was reconciled a second time
\* against a job that its first reconciliation moved to interviewing
C10_Witness ==
    /\ rec.again
    /\ rec.applied = FALSE
    /\ rec.update.type = "positive"
    /\ \E d \in jobs : d.status = "interviewing" /\ matches(d, rec.update)

\* C11: a scan requested without a gmail_tokens cookie answers "Not
\* connected" with connected: false, makes no list or get call, and leaves
\* the cookie, the request state and the stores as they were.
C11_NoSessionNoCalls ==
    [][(Idle /\ gmail_tokens = NoCookie /\ res'.route = "check-emails")
         => /\ res'.error = "Not connected"
            /\ res'.connected = "false"
            /\ res'.updates = <<>>
            /\ calls' = <<>>
            /\ UNCHANGED <<gmail_tokens, scan, storeVars, multiVars>>]_vars

\* C11 witness: a scan without a cookie was answered
C11_Witness ==
    /\ gmail_tokens = NoCookie
    /\ res.route = "check-emails"
    /\ res.error = "Not connected"
    /\ calls = <<>>

\* the errors with which the provider rejects a credential
Rejected == {"401", "invalid_grant"}

\* C12: once the provider rejected a client's credential during a scan, the
\* session is gone: every later status query of that client answers
\* connected: false and every later scan of it ends as not connected,
\* without reaching the provider.
C12_RejectedSessionDiscarded ==
    [][\A c \in Clients :
         mres[c].err \in Rejected
           => /\ mres'[c].route = "gmail-status" => mres'[c].connected = "false"
              /\ mscan'[c].pc = "idle"
              /\ (mres'[c].route = "check-emails" /\ mres'[c] # mres[c])
                   => mres'[c].error \in {"Not connected", "login"}]_vars

\* the step ends a scan whose last provider call failed
ScanFailedStep ==
    /\ scan'.pc = "idle"
    /\ res'.route = "check-emails"
    /\ calls' # <<>>
    /\ calls' # calls \/ scan' # scan
    /\ calls'[Len(calls')].out # "ok"

\* C13: a scan whose list or get call fails for a reason other than a
\* rejected credential answers "Failed to check emails" and keeps the
\* gmail_tokens cookie; the scan requested after such an answer calls the
\* provider with that cookie's credentials.
C13_ProviderFailureKeepsSession ==
    [][/\ (ScanFailedStep /\ calls'[Len(calls')].out \notin Rejected)
            => /\ res'.error = "Failed to check emails"
               /\ gmail_tokens # NoCookie
               /\ gmail_tokens' = gmail_tokens
       /\ (Idle /\ res.error = "Failed to check emails" /\ res'.route = "check-emails"
             /\ res' # res)
            => /\ calls' # <<>>
               /\ calls'[1].op = "list"
               /\ calls'[1].cred = gmail_tokens]_vars

\* C13 witness: a scan failed on a get call with a provider error, and the
\* cookie is still there
C13_Witness ==
    /\ res.route = "check-emails"
    /\ res.error = "Failed to check emails"
    /\ Len(calls) > 1
    /\ calls[Len(calls)].out = "error"
    /\ gmail_tokens # NoCookie

\* C14: a scan that got past its list call always succeeds: when it ends, it
\* answers without an error and returns a record for every qualifying
\* message it fetched, even if the fetch or the parse of another message
\* failed.
C14_MessageFailureSkipped ==
    [][(scan.pc = "loop" /\ scan'.pc = "idle")
         => /\ res'.error = "none"
            /\ res'.connected = "true"
            /\ \A i \in DOMAIN scan.fetched :
                 HasKeyword(SubjectOf(scan.fetched[i]))
                   => \E j \in DOMAIN res'.updates :
                        res'.updates[j].subject = SubjectOf(scan.fetched[i])]_vars

\* the subjects and senders of the qualifying messages of a listing, in
\* listing order
RECURSIVE QualifyingInOrder(_)
QualifyingInOrder(msgs) ==
    IF msgs = <<>> THEN <<>>
    ELSE (IF HasKeyword(SubjectOf(Head(msgs)))
            THEN << <<SubjectOf(Head(msgs)), FromOf(Head(msgs))>> >>
            ELSE <<>>) \o QualifyingInOrder(Tail(msgs))

\* C15: the records of a successful scan are, one for one and in the same
\* order, the qualifying messages of the listing.
C15_ListingOrder ==
    ScanSucceeded =>
        [j \in DOMAIN res.updates |-> <<res.updates[j].subject, res.updates[j].company>>]
          = QualifyingInOrder(listed)

\* C15 witness: a successful scan returned the records of two different
\* qualifying messages
C15_Witness ==
    /\ ScanSucceeded
    /\ Len(res.updates) = 2
    /\ res.updates[1].subject # res.updates[2].subject

\* the errors of a save-job response that report backend unavailability
BackendErrors == {"Database not configured", "Failed to save job"}

\* C16: a save-job request that fails because of its own content (a missing
\* required field, or a status outside the schema's enum) is answered with
\* the validation error 400 "Missing required fields" and never with a
\* backend error, and every failed save-job request leaves the store
\* unchanged.
C16_ValidationVsBackend ==
    [][/\ (post.pc = "write" /\ post'.pc = "idle"
             /\ post.body.status \notin StatusEnum \cup {Absent}
             /\ res'.code # 200)
            => /\ res'.code = 400
               /\ res'.error \notin BackendErrors
       /\ (res'.route = "post-jobs" /\ res'.code # 200 /\ res' # res)
            => jobs' = jobs]_vars

\* C17: a step that answers a save or a status update with an error leaves
\* every stored job as it was, and a save that was to change the status of
\* an existing job (whose stored status or lastUpdated the write would
\* change) and did not change the store answers with an error.
C17_FailedWriteKeepsJob ==
    [][/\ (res'.route \in {"post-jobs", "patch-jobs"} /\ res'.code = 500)
            => jobs' = jobs
       /\ (post.pc = "write" /\ post'.pc = "idle" /\ post.existing # 0
             /\ post.status # post.body.status
             /\ \E d \in jobs : /\ d.id = post.existing
                                /\ d.status # post.body.status \/ d.lastUpdated # now
             /\ jobs' = jobs)
            => res'.code = 500]_vars

\* C17 witness: a status update failed while a job is stored
C17_Witness ==
    /\ res.route = "patch-jobs"
    /\ res.code = 500
    /\ res.error = "Failed to update job"
    /\ \E d \in jobs : d.status = "saved"

\* C18: a gmail_tokens cookie appears only in a step that answers a
\* callback whose code exchange succeeded; a callback answered with an
\* error leaves the cookie as it was; and a status query answers connected:
\* true exactly when the cookie is there.
C18_SessionOnlyFromExchange ==
    [][/\ (gmail_tokens = NoCookie /\ gmail_tokens' # NoCookie)
            => res'.route = "callback" /\ res'.error = "none"
       /\ (res'.route = "callback" /\ res'.error # "none")
            => gmail_tokens' = gmail_tokens
       /\ res'.route = "gmail-status"
            => (res'.connected = "true" <=> gmail_tokens' # NoCookie)]_vars

\* C18 witness: a callback whose exchange failed was answered while a
\* session exists
C18_Witness ==
    /\ res.route = "callback"
    /\ res.error = "connection_failed"
    /\ gmail_tokens # NoCookie

\* C19: every list and get call of a client's scan, in flight or answered,
\* was made with the credentials of that client's own gmail_tokens cookie.
C19_OwnCredentials ==
    \A c \in Clients :
        /\ \A i \in DOMAIN mscan[c].calls : mscan[c].calls[i].cred = mcookie[c]
        /\ \A i \in DOMAIN mres[c].calls : mres[c].calls[i].cred = mcookie[c]

\* the step belongs to a scan: the request state moves, or a scan is answered
ScanStep ==
    \/ scan' # scan
    \/ res'.route = "check-emails" /\ (res' # res \/ calls' # calls)

\* C20: no step of a scan, successful or failed, changes the stored jobs:
\* the set of jobs and every job's status and lastUpdated stay as they were.
C20_ScanReadOnly ==
    [][ScanStep => (jobs' = jobs /\ userJobs' = userJobs)]_vars

\* C20 witness: a scan that returned a record was answered while a job
\* edited by hand is stored
C20_Witness ==
    /\ ScanSucceeded
    /\ res.updates # <<>>
    /\ \E d \in jobs : d.status = "applied"

\* C21: when a client whose user cookie does not parse is answered on a
\* protected route, the answer is a redirect to /login and the cookie is
\* cleared, so the client's next request carries no user cookie.
C21_MalformedCookieCleared ==
    [][\A c \in Clients :
         (ucookie[c] = Malformed /\ ures'[c] # ures[c]
            /\ ures'[c].route \in ProtectedRoutes)
           => /\ ures'[c].code = 302
              /\ ures'[c].location = "/login"
              /\ ucookie'[c] = NoCookie]_vars

\* the stored jobs of one owner, in the order they were created
OwnJobs(docs, user) == SelectSeq(docs, LAMBDA d : d.userId = user)

\* the elements of a sequence
Range(seq) == {seq[i] : i \in DOMAIN seq}

\* the step ends client c's save-job request in Job.create
CreateStep(c) == mpost[c].pc = "create" /\ mpost'[c].pc = "idle"

\* C22: a tracker page shows exactly the stored jobs of the user of the
\* request; a save of one user leaves the stored jobs of every other user
\* as they were; and a successful save adds one record owned by the saving
\* user, also when another user already tracks that jobId.
C22_OwnerIsolation ==
    [][\A c \in Clients :
         /\ (ures'[c] # ures[c] /\ ures'[c].route = "tracker" /\ ures'[c].code = 200)
              => /\ Range(ures'[c].jobs) = Range(OwnJobs(userJobs, ucookie[c]))
                 /\ Len(ures'[c].jobs) = Len(OwnJobs(userJobs, ucookie[c]))
         /\ CreateStep(c)
              => /\ \A u \in Users \ {mpost[c].user} :
                      OwnJobs(userJobs', u) = OwnJobs(userJobs, u)
                 /\ res'.error = "Job saved!"
                      => /\ Len(userJobs') = Len(userJobs) + 1
                         /\ userJobs'[Len(userJobs')].userId = mpost[c].user
                         /\ userJobs'[Len(userJobs')].jobId = mpost[c].body.jobId
                         /\ SubSeq(userJobs', 1, Len(userJobs)) = userJobs]_vars

\* C22 witness: both users track the same jobId, and each of the two
\* clients was shown a tracker page with one job, its own user's
C22_Witness ==
    /\ \E i, j \in DOMAIN userJobs :
         /\ userJobs[i].userId # userJobs[j].userId
         /\ userJobs[i].jobId = userJobs[j].jobId
    /\ \A c \in Clients :
         /\ ures[c].route = "tracker"
         /\ Len(ures[c].jobs) = 1
         /\ ures[c].jobs[1].userId = ucookie[c]
    /\ \E c, d \in Clients : ucookie[c] # ucookie[d]

====
